---- MODULE Spec2Model ----
(***************************************************************************)
(* Model of app.py: a LangGraph state graph with one routing node          *)
(* ("orquestrador") and two specialist nodes ("pesquisador",               *)
(* "analista_dados") that loop back to it, plus the three file tools the   *)
(* specialists may call.  Texts are sequences of one-character strings so  *)
(* that str.lower() and the `in` substring test are computed, not assumed. *)
(***************************************************************************)
EXTENDS Integers, Sequences, FiniteSets, TLC

\* ---------------------------------------------------------------- bounds
\* Largest number of committed node visits explored in one run.
MaxVisits == 5
\* Largest number of fragments concatenated into an input text.
MaxFrags == 2
\* Largest number of tool calls a specialist makes during one visit.
MaxToolCalls == 1

\* ------------------------------------------------------- text primitives
UpperChars ==
    <<"A","B","C","D","E","F","G","H","I","J","K","L","M","N","O","P","Q","R","S","T","U","V","W","X","Y","Z","Á","À","Â","Ã","Ç","É","Ê","Í","Ó","Ô","Õ","Ú">>
LowerChars ==
    <<"a","b","c","d","e","f","g","h","i","j","k","l","m","n","o","p","q","r","s","t","u","v","w","x","y","z","á","à","â","ã","ç","é","ê","í","ó","ô","õ","ú">>

\* the lower-case letter of each upper-case letter
LowerOf ==
    [u \in {UpperChars[i] : i \in 1..Len(UpperChars)} |->
        LowerChars[CHOOSE i \in 1..Len(UpperChars) : UpperChars[i] = u]]

\* str.lower() on one character
LowerChar(c) == IF c \in DOMAIN LowerOf THEN LowerOf[c] ELSE c

\* str.lower()
Lower(s) == [i \in 1..Len(s) |-> LowerChar(s[i])]

\* Python's `sub in s` on strings
Contains(s, sub) ==
    \E i \in 1..(Len(s) - Len(sub) + 1) : SubSeq(s, i, i + Len(sub) - 1) = sub

IsPrefix(s, t) == Len(s) <= Len(t) /\ SubSeq(t, 1, Len(s)) = s

Last(s) == s[Len(s)]

RECURSIVE Flatten(_)
Flatten(ss) == IF ss = <<>> THEN <<>> ELSE Head(ss) \o Flatten(Tail(ss))

\* ------------------------------------------------------ program literals
PhraseAnalise ==
    <<"a","n","a","l","i","s","e"," ","d","e"," ","d","a","d","o","s">>
PhrasePesquisa ==
    <<"p","e","s","q","u","i","s","a">>
PhraseCriacao ==
    <<"c","r","i","a","ç","ã","o"," ","d","e"," ","c","o","n","t","e","ú","d","o">>
LabelAnalista ==
    <<"a","n","a","l","i","s","t","a","_","d","a","d","o","s">>
LabelPesquisador ==
    <<"p","e","s","q","u","i","s","a","d","o","r">>
LabelCriador ==
    <<"c","r","i","a","d","o","r","_","c","o","n","t","e","u","d","o">>
END ==
    <<"_","_","e","n","d","_","_">>
Inputs1 ==
    <<"P","r","e","c","i","s","o"," ","d","e"," ","u","m","a"," ","a","n","á","l","i","s","e"," ","d","e"," ","d","a","d","o","s"," ","s","o","b","r","e"," ","o"," ","a","r","q","u","i","v","o"," ","'","v","e","n","d","a","s",".","t","x","t","'",".">>
Inputs2 ==
    <<"F","a","ç","a"," ","u","m","a"," ","p","e","s","q","u","i","s","a"," ","s","o","b","r","e"," ","o"," ","i","m","p","a","c","t","o"," ","d","a"," ","I","A"," ","n","a"," ","m","e","d","i","c","i","n","a",".">>

\* ------------------------------------------------- sample texts (inputs)
\* the phrase as the specification and the driver spell it
PhraseAnaliseAcento ==
    <<"a","n","á","l","i","s","e"," ","d","e"," ","d","a","d","o","s">>
FragAcento ==
    <<"A","N","Á","L","I","S","E"," ","d","e"," ","D","a","d","o","s">>
FragAnalise ==
    <<"A","n","a","l","i","s","e"," ","D","e"," ","D","a","d","o","s">>
FragPesquisa ==
    <<"p","e","s","q","u","i","s","a">>
FragPESQUISA ==
    <<"P","E","S","Q","U","I","S","A">>
FragCriacao ==
    <<"C","r","i","a","ç","ã","o"," ","d","e"," ","c","o","n","t","e","ú","d","o">>
FragOutro ==
    <<"o","i"," ">>

Fragments == {FragAcento, FragAnalise, FragPESQUISA, FragCriacao, FragOutro}

FragSeqs == UNION {[1..n -> Fragments] : n \in 1..MaxFrags}

\* texts a caller may hand to the graph: the driver's two examples and
\* every concatenation of up to MaxFrags fragments
InputTexts == {Inputs1, Inputs2} \cup {Flatten(fs) : fs \in FragSeqs}

\* texts a specialist's language model may answer with
OutFeito ==
    <<"f","e","i","t","o">>
OutPesquisa ==
    <<"P","e","s","q","u","i","s","a"," ","c","o","n","c","l","u","i","d","a">>
OutAnalise ==
    <<"a","n","a","l","i","s","e"," ","d","e"," ","d","a","d","o","s"," ","p","r","o","n","t","a">>
OutCriacao ==
    <<"c","r","i","a","ç","ã","o"," ","d","e"," ","c","o","n","t","e","ú","d","o">>

Outputs == {OutFeito, OutPesquisa, OutAnalise, OutCriacao}

\* ------------------------------------------------------------- messages
HumanMessage(text) == [type |-> "human", content |-> text]
AIMessage(text) == [type |-> "ai", content |-> text]

\* an earlier, finished exchange that may precede the request
Priors == {<<>>, <<HumanMessage(FragPesquisa), AIMessage(OutFeito)>>}

Unset == "unset"

VARIABLES
    messages,     \* AgentState.messages
    next_agent,   \* AgentState.next_agent
    pc,           \* node the graph runs next, "__end__", or "error"
    visited,      \* names of the nodes whose update was committed, in order
    decision,     \* latest decide_next_agent call: inspected text and label
    initial,      \* the messages the run was started with
    fs,           \* file system: path -> entry
    lastCall,     \* latest tool invocation made on its own and its outcome
    earlierCall   \* one tool invocation made before lastCall, any of them

vars == <<messages, next_agent, pc, visited, decision, initial, fs, lastCall,
          earlierCall>>

AgentState == [messages |-> messages, next_agent |-> next_agent]

NoDecision == [text |-> <<>>, label |-> <<>>]

\* ---------------------------------------------------------- file system
PathVendas ==
    <<"v","e","n","d","a","s",".","t","x","t">>
PathSaida ==
    <<"o","u","t">>
ErroLer ==
    <<"E","r","r","o",":"," ","A","r","q","u","i","v","o"," ","n","ã","o"," ","e","n","c","o","n","t","r","a","d","o"," ","e","m"," ">>
OkEscrever ==
    <<"C","o","n","t","e","ú","d","o"," ","s","a","l","v","o"," ","c","o","m"," ","s","u","c","e","s","s","o"," ","e","m"," ">>
ErroEscrever ==
    <<"E","r","r","o"," ","a","o"," ","e","s","c","r","e","v","e","r"," ","o"," ","a","r","q","u","i","v","o",":"," ">>
OkAnalise ==
    <<"D","a","d","o","s"," ","a","n","a","l","i","s","a","d","o","s"," ","e"," ","r","e","s","u","l","t","a","d","o"," ","g","e","r","a","d","o",":"," ">>
ErrnoDir ==
    <<"[","E","r","r","n","o"," ","2","1","]"," ","I","s"," ","a"," ","d","i","r","e","c","t","o","r","y",":"," ">>
ErrnoPerm ==
    <<"[","E","r","r","n","o"," ","1","3","]"," ","P","e","r","m","i","s","s","i","o","n"," ","d","e","n","i","e","d",":"," ">>
Quote ==
    <<"'">>

PathSub ==
    <<"v","e","n","d","a","s",".","t","x","t","/","x">>
ErrnoNoEnt ==
    <<"[","E","r","r","n","o"," ","2","]"," ","N","o"," ","s","u","c","h"," ","f","i","l","e"," ","o","r"," ","d","i","r","e","c","t","o","r","y",":"," ">>
ErrnoNotDir ==
    <<"[","E","r","r","n","o"," ","2","0","]"," ","N","o","t"," ","a"," ","d","i","r","e","c","t","o","r","y",":"," ">>

Paths == {PathVendas, PathSaida, PathSub}

ConteudoCRLF ==
    <<"1","\r","\n","2">>
ConteudoOk ==
    <<"o","k">>
Contents == {ConteudoCRLF, ConteudoOk}

\* what a path names: nothing, a regular file, a directory, or a file the
\* process has no permission to open
Missing == [kind |-> "missing", data |-> <<>>]
File(data) == [kind |-> "file", data |-> data]
Dir == [kind |-> "dir", data |-> <<>>]
Locked == [kind |-> "locked", data |-> <<>>]

Entries == {Missing, Dir, Locked} \cup {File(c) : c \in Contents}

\* a path below another one: the part before its last "/"
HasParent(path) == \E i \in 1..Len(path) : path[i] = "/"
ParentOf(path) ==
    LET i == CHOOSE k \in 1..Len(path) :
                path[k] = "/" /\ \A j \in (k + 1)..Len(path) : path[j] # "/"
    IN  SubSeq(path, 1, i - 1)

\* only a directory has anything below it
FsStates ==
    {f \in [Paths -> Entries] :
        \A p \in Paths :
            (HasParent(p) /\ f[p] # Missing) => f[ParentOf(p)].kind = "dir"}

\* the errno open(file_path, mode) fails with, or "ok"
OpenErrno(fsys, file_path, mode) ==
    IF HasParent(file_path) /\ fsys[ParentOf(file_path)].kind = "missing"
    THEN "ENOENT"
    ELSE IF HasParent(file_path) /\ fsys[ParentOf(file_path)].kind # "dir"
    THEN "ENOTDIR"
    ELSE CASE fsys[file_path].kind = "missing" ->
                 IF mode = "r" THEN "ENOENT" ELSE "ok"
           [] fsys[file_path].kind = "file" -> "ok"
           [] fsys[file_path].kind = "dir" -> "EISDIR"
           [] fsys[file_path].kind = "locked" -> "EACCES"

\* the exception class Python raises for an errno
ExceptionOf(errno) ==
    CASE errno = "ENOENT" -> "FileNotFoundError"
      [] errno = "ENOTDIR" -> "NotADirectoryError"
      [] errno = "EISDIR" -> "IsADirectoryError"
      [] errno = "EACCES" -> "PermissionError"

\* str(e) of the OSError raised by open
OSErrorText(errno, file_path) ==
    (CASE errno = "ENOENT" -> ErrnoNoEnt
       [] errno = "ENOTDIR" -> ErrnoNotDir
       [] errno = "EISDIR" -> ErrnoDir
       [] errno = "EACCES" -> ErrnoPerm) \o Quote \o file_path \o Quote

\* os.path.exists
Exists(fsys, file_path) ==
    /\ fsys[file_path].kind # "missing"
    /\ HasParent(file_path) => fsys[ParentOf(file_path)].kind = "dir"

\* text-mode read (newline=None): "\r\n" and a lone "\r" become "\n"
RECURSIVE UniversalNewlines(_)
UniversalNewlines(s) ==
    IF s = <<>> THEN <<>>
    ELSE IF Head(s) = "\r"
         THEN IF Len(s) >= 2 /\ s[2] = "\n"
              THEN <<"\n">> \o UniversalNewlines(SubSeq(s, 3, Len(s)))
              ELSE <<"\n">> \o UniversalNewlines(Tail(s))
         ELSE <<Head(s)>> \o UniversalNewlines(Tail(s))

Return(text) == [raised |-> FALSE, exc |-> "none", value |-> text]
Raise(exc) == [raised |-> TRUE, exc |-> exc, value |-> <<>>]

\* --------------------------------------------------------------- tools
\* each tool yields the file system after the call and the call's outcome

ler_arquivo(fsys, file_path) ==
    LET errno == OpenErrno(fsys, file_path, "r")
    IN  [fs |-> fsys,
         result |->
            IF errno = "ok"
            THEN Return(UniversalNewlines(fsys[file_path].data))
            ELSE IF ExceptionOf(errno) = "FileNotFoundError"
            THEN Return(ErroLer \o file_path)
            ELSE Raise(ExceptionOf(errno))]

\* escrever_arquivo opening with mode 'x': an existing file is an error
ErrnoExist ==
    <<"[","E","r","r","n","o"," ","1","7","]"," ","F","i","l","e"," ","e","x","i","s","t","s",":"," ">>

escrever_arquivo_exclusive(fsys, file_path, content) ==
    LET errno == OpenErrno(fsys, file_path, "w")
    IN  IF errno = "ok" /\ fsys[file_path].kind = "missing"
        THEN [fs |-> [fsys EXCEPT ![file_path] = File(content)],
              result |-> Return(OkEscrever \o file_path)]
        ELSE IF errno = "ok"
        THEN [fs |-> fsys,
              result |-> Return(ErroEscrever \o ErrnoExist \o Quote \o file_path \o Quote)]
        ELSE [fs |-> fsys,
              result |-> Return(ErroEscrever \o OSErrorText(errno, file_path))]

escrever_arquivo(fsys, file_path, content) ==
    LET errno == OpenErrno(fsys, file_path, "w")
    IN  IF errno = "ok"
        THEN [fs |-> [fsys EXCEPT ![file_path] = File(content)],
              result |-> Return(OkEscrever \o file_path)]
        ELSE [fs |-> fsys,
              result |-> Return(ErroEscrever \o OSErrorText(errno, file_path))]

\* an analysis stub that also reports what the output file holds
ferramenta_analise_dados_com_arquivo(fsys, dados) ==
    [fs |-> fsys, result |-> Return(OkAnalise \o dados \o fsys[PathSaida].data)]

ferramenta_analise_dados(fsys, dados) ==
    [fs |-> fsys, result |-> Return(OkAnalise \o dados)]

\* a tool call: the tool's name and its arguments
Call(tool, arg1, arg2) == [tool |-> tool, arg1 |-> arg1, arg2 |-> arg2]

Invoke(fsys, call) ==
    CASE call.tool = "ler_arquivo" -> ler_arquivo(fsys, call.arg1)
      [] call.tool = "escrever_arquivo" ->
            escrever_arquivo(fsys, call.arg1, call.arg2)
      [] call.tool = "ferramenta_analise_dados" ->
            ferramenta_analise_dados(fsys, call.arg1)

LerCalls == {Call("ler_arquivo", p, <<>>) : p \in Paths}
EscreverCalls == {Call("escrever_arquivo", p, c) : p \in Paths, c \in Contents}
AnaliseCalls == {Call("ferramenta_analise_dados", d, <<>>) : d \in Contents}

\* the tools bound to each specialist
ToolCalls(node) ==
    IF node = "pesquisador" THEN LerCalls
    ELSE LerCalls \cup EscreverCalls \cup AnaliseCalls

\* ---------------------------------------------------------- orchestrator
\* decide_next_agent with the case folding left out
decide_next_agent_sem_lower(state) ==
    LET last_message == Last(state.messages).content
    IN  IF Contains(last_message, PhraseAnalise) THEN LabelAnalista
        ELSE IF Contains(last_message, PhrasePesquisa) THEN LabelPesquisador
        ELSE IF Contains(last_message, PhraseCriacao) THEN LabelCriador
        ELSE END

\* decide_next_agent testing for "pesquisa" before the data-analysis phrase
decide_next_agent_pesquisa_first(state) ==
    LET last_message == Last(state.messages).content
    IN  IF Contains(Lower(last_message), PhrasePesquisa) THEN LabelPesquisador
        ELSE IF Contains(Lower(last_message), PhraseAnalise) THEN LabelAnalista
        ELSE IF Contains(Lower(last_message), PhraseCriacao) THEN LabelCriador
        ELSE END

\* decide_next_agent reading the first message of the conversation
decide_next_agent_first_message(state) ==
    LET last_message == state.messages[1].content
    IN  IF Contains(Lower(last_message), PhraseAnalise) THEN LabelAnalista
        ELSE IF Contains(Lower(last_message), PhrasePesquisa) THEN LabelPesquisador
        ELSE IF Contains(Lower(last_message), PhraseCriacao) THEN LabelCriador
        ELSE END

\* decide_next_agent giving up once the conversation has grown
decide_next_agent_com_limite(state) ==
    LET last_message == Last(state.messages).content
    IN  IF Len(state.messages) > 4 THEN END
        ELSE IF Contains(Lower(last_message), PhraseAnalise) THEN LabelAnalista
        ELSE IF Contains(Lower(last_message), PhrasePesquisa) THEN LabelPesquisador
        ELSE IF Contains(Lower(last_message), PhraseCriacao) THEN LabelCriador
        ELSE END

decide_next_agent(state) ==
    LET last_message == Last(state.messages).content
    IN  IF Contains(Lower(last_message), PhraseAnalise) THEN LabelAnalista
        ELSE IF Contains(Lower(last_message), PhrasePesquisa) THEN LabelPesquisador
        ELSE IF Contains(Lower(last_message), PhraseCriacao) THEN LabelCriador
        ELSE END

\* ----------------------------------------------------------------- graph
Specialists == {"pesquisador", "analista_dados"}

\* a reducer that replaces the list by the update
operator_add_overwrite(left, right) == right

\* a reducer that drops the oldest message to make room for the update
operator_add_drop_oldest(left, right) == Tail(left) \o right

\* the reducer annotated on AgentState.messages
operator_add(left, right) == left \o right

\* an orchestrator node that appends its label as a human message
NodeOrquestrador_human(state) == [messages |-> <<HumanMessage(decide_next_agent(state))>>]

\* the update the orchestrator node returns
NodeOrquestrador(state) == [messages |-> <<AIMessage(decide_next_agent(state))>>]

\* the update a specialist node returns, given its executor's answer
NodeEspecialista(answer) == [messages |-> <<AIMessage(answer)>>]

\* a branch table that sends the researcher label back to the orchestrator
Ends_volta ==
    (LabelPesquisador :> "orquestrador") @@
    (LabelAnalista :> "analista_dados") @@
    (END :> "__end__")

\* the branch table of the orchestrator's conditional edge
Ends ==
    (LabelPesquisador :> "pesquisador") @@
    (LabelAnalista :> "analista_dados") @@
    (END :> "__end__")

\* an edge that sends the researcher on to the analyst
EdgeFrom_chain(node) == IF node = "pesquisador" THEN "analista_dados" ELSE "orquestrador"

\* the plain edges out of the specialist nodes
EdgeFrom(node) == "orquestrador"

\* the tool calls one specialist visit makes, run in order until one raises
RECURSIVE RunCalls(_, _)
RunCalls(fsys, calls) ==
    IF calls = <<>> THEN [fs |-> fsys, raised |-> FALSE]
    ELSE LET r == Invoke(fsys, Head(calls))
         IN  IF r.result.raised THEN [fs |-> r.fs, raised |-> TRUE]
             ELSE RunCalls(r.fs, Tail(calls))

CallSeqs(node) == UNION {[1..n -> ToolCalls(node)] : n \in 0..MaxToolCalls}

\* outcomes of the tool calls of one visit: file system left behind, and
\* whether a tool raised
ToolOutcomes(fsys, node) == {RunCalls(fsys, calls) : calls \in CallSeqs(node)}

\* file systems a run may start on
InitialFs ==
    {[p \in Paths |-> Missing],
     [p \in Paths |-> IF p = PathVendas THEN File(ConteudoCRLF) ELSE Missing],
     [p \in Paths |-> IF p = PathVendas THEN Dir
                      ELSE IF p = PathSaida THEN Locked ELSE Missing]}

NoCall == [call |-> Call("none", <<>>, <<>>), before |-> [p \in Paths |-> Missing],
           result |-> Return(<<>>)]

\* what a call can see of the file system: the entry at its path and the
\* entry of the directory above it; nothing for the analysis stub
Relevant(fsys, call) ==
    IF call.tool \in {"ler_arquivo", "escrever_arquivo"}
    THEN <<fsys[call.arg1],
           IF HasParent(call.arg1) THEN fsys[ParentOf(call.arg1)] ELSE Dir>>
    ELSE <<>>

NoEarlier == [call |-> Call("none", <<>>, <<>>), view |-> <<>>,
              result |-> Return(<<>>), adjacent |-> FALSE]

\* app.stream(inputs): the run starts at the entry point
Init ==
    /\ \E prior \in Priors, text \in InputTexts :
            messages = prior \o <<HumanMessage(text)>>
    /\ next_agent \in {Unset, "pesquisador"}
    /\ pc = "orquestrador"
    /\ visited = <<>>
    /\ decision = NoDecision
    /\ initial = messages
    /\ fs \in InitialFs
    /\ lastCall = NoCall
    /\ earlierCall = NoEarlier

\* the orchestrator node and its conditional edge: the branch reads the
\* state with the node's update applied and looks the content up in Ends;
\* a content with no entry fails the step and nothing is committed
Orquestrador ==
    /\ pc = "orquestrador"
    /\ Len(visited) < MaxVisits
    /\ LET update == NodeOrquestrador(AgentState)
           merged == operator_add(messages, update.messages)
           key == Last(merged).content
       IN  /\ decision' = [text |-> Last(messages).content,
                          label |-> decide_next_agent(AgentState)]
           /\ IF key \in DOMAIN Ends
              THEN /\ messages' = merged
                   /\ pc' = Ends[key]
                   /\ visited' = Append(visited, "orquestrador")
              ELSE /\ pc' = "error"
                   /\ UNCHANGED <<messages, visited>>
    /\ UNCHANGED <<next_agent, initial, fs, lastCall, earlierCall>>

\* a specialist node: its executor calls tools and answers; a tool that
\* raises fails the step
Especialista(node) ==
    /\ pc = node
    /\ Len(visited) < MaxVisits
    /\ \E outcome \in ToolOutcomes(fs, node) :
        /\ fs' = outcome.fs
        /\ IF outcome.raised
           THEN /\ pc' = "error"
                /\ UNCHANGED <<messages, visited>>
           ELSE \E answer \in Outputs :
                /\ messages' = operator_add(messages, NodeEspecialista(answer).messages)
                /\ pc' = EdgeFrom(node)
                /\ visited' = Append(visited, node)
    /\ UNCHANGED <<next_agent, decision, initial, lastCall, earlierCall>>

Pesquisador == Especialista("pesquisador")

AnalistaDados == Especialista("analista_dados")

Next == Orquestrador \/ Pesquisador \/ AnalistaDados

Spec == Init /\ [][Next]_vars

\* ------------------------------- a language model that always asks for more
\* a text the orchestrator dispatches on
Dispatches(text) ==
    \/ Contains(Lower(text), PhraseAnalise)
    \/ Contains(Lower(text), PhrasePesquisa)

LoopOutputs == {answer \in Outputs : Dispatches(answer)}

InitLoop == Init /\ Dispatches(Last(messages).content)

PesquisadorLoop ==
    /\ Pesquisador
    /\ pc' = "error" \/ Last(messages').content \in LoopOutputs

AnalistaDadosLoop ==
    /\ AnalistaDados
    /\ pc' = "error" \/ Last(messages').content \in LoopOutputs

NextLoop == Orquestrador \/ PesquisadorLoop \/ AnalistaDadosLoop

SpecLoop == InitLoop /\ [][NextLoop]_vars

\* ------------------------------------------------ tools called on their own
\* a specialist at work, on any file system
InitTools ==
    /\ pc \in Specialists
    /\ messages = <<HumanMessage(IF pc = "pesquisador" THEN FragPesquisa ELSE FragAnalise),
                    AIMessage(IF pc = "pesquisador" THEN LabelPesquisador ELSE LabelAnalista)>>
    /\ next_agent = Unset
    /\ visited = <<"orquestrador">>
    /\ decision = [text |-> messages[1].content, label |-> messages[2].content]
    /\ initial = <<messages[1]>>
    /\ fs \in FsStates
    /\ lastCall = NoCall
    /\ earlierCall = NoEarlier

ToolCall(call) ==
    /\ call \in ToolCalls(pc)
    /\ LET r == Invoke(fs, call)
       IN  /\ fs' = r.fs
           /\ lastCall' = [call |-> call, before |-> fs, result |-> r.result]
           /\ \/ earlierCall' = [call |-> lastCall.call,
                                 view |-> Relevant(lastCall.before, lastCall.call),
                                 result |-> lastCall.result,
                                 adjacent |-> TRUE]
              \/ earlierCall' = [earlierCall EXCEPT !.adjacent = FALSE]
    /\ UNCHANGED <<messages, next_agent, pc, visited, decision, initial>>

LerArquivo == \E call \in LerCalls : ToolCall(call)

EscreverArquivo == \E call \in EscreverCalls : ToolCall(call)

FerramentaAnaliseDados == \E call \in AnaliseCalls : ToolCall(call)

NextTools == LerArquivo \/ EscreverArquivo \/ FerramentaAnaliseDados

SpecTools == InitTools /\ [][NextTools]_vars

TypeOK ==
    /\ pc \in {"orquestrador", "pesquisador", "analista_dados", "__end__", "error"}
    /\ Len(messages) >= 1
    /\ fs \in FsStates

\* ------------------------------------------------------------ properties
Decided == decision # NoDecision

\* the text the latest routing call inspected, lower-cased
Inspected == Lower(decision.text)

\* C1: whenever the inspected last message contains "análise de dados"
\* (accented, any letter case), routing returns "analista_dados" and the
\* node run after the orchestrator is analista_dados.
C1_AcentoRoutesToAnalista ==
    (Decided /\ Contains(Inspected, PhraseAnaliseAcento)) =>
        /\ decision.label = LabelAnalista
        /\ (visited # <<>> /\ Last(visited) = "orquestrador") => pc = "analista_dados"

\* C2 as stated: whenever the inspected last message contains "pesquisa"
\* (any letter case), routing returns "pesquisador", whatever else it holds.
C2_PesquisaAlwaysRoutes ==
    (Decided /\ Contains(Inspected, PhrasePesquisa)) =>
        decision.label = LabelPesquisador

\* C2 amended: whenever the inspected last message contains "pesquisa" (any
\* letter case) and does not contain "analise de dados" (unaccented, any
\* letter case), routing returns "pesquisador", whatever else it holds.
C2_PesquisaRoutes ==
    (Decided /\ Contains(Inspected, PhrasePesquisa)
             /\ ~Contains(Inspected, PhraseAnalise)) =>
        decision.label = LabelPesquisador

\* an upper-case "PESQUISA" next to the content-creation phrase was routed
C2_Witness ==
    /\ Decided
    /\ Contains(decision.text, FragPESQUISA)
    /\ Contains(Inspected, PhraseCriacao)
    /\ decision.label = LabelPesquisador
    /\ pc = "pesquisador"

\* C3: whenever the inspected last message contains neither the
\* data-analysis phrase (in either spelling) nor "pesquisa", routing returns
\* END and the run ends at that orchestrator visit.
C3_NeitherPhraseEnds ==
    (Decided /\ ~Contains(Inspected, PhraseAnalise)
             /\ ~Contains(Inspected, PhraseAnaliseAcento)
             /\ ~Contains(Inspected, PhrasePesquisa)) =>
        decision.label = END /\ pc = "__end__"

\* C4: every label routing returns is a key of the conditional-edge table.
C4_LabelHasEdge == Decided => decision.label \in DOMAIN Ends

\* C5: after k committed node visits the message sequence is the initial
\* messages plus exactly k more (one per visit).
C5_OneMessagePerVisit ==
    /\ Len(messages) = Len(initial) + Len(visited)
    /\ SubSeq(messages, 1, Len(initial)) = initial

\* a run started after an earlier exchange has visited a specialist and
\* come back to the orchestrator
C5_Witness ==
    /\ Len(initial) = 3
    /\ Len(visited) >= 3
    /\ visited[2] \in Specialists
    /\ Len(messages) = 6

\* C6: every step leaves the old message sequence as a prefix of the new
\* one: nothing is removed, replaced or reordered.
C6_AppendOnly == [][IsPrefix(messages, messages')]_vars

\* a run that went through a specialist has ended
C6_Witness ==
    /\ pc = "__end__"
    /\ Len(visited) >= 3
    /\ Len(messages) > Len(initial)

\* a text holding one of the phrases that name a specialist
HasSpecialistPhrase(text) ==
    \/ Contains(Lower(text), PhraseAnalise)
    \/ Contains(Lower(text), PhraseAnaliseAcento)
    \/ Contains(Lower(text), PhrasePesquisa)

\* C7: a run reaches the end only from the orchestrator, and an orchestrator
\* visit whose inspected message holds no specialist phrase ends the run; on
\* the initial message that is after exactly one visit, no specialist seen.
C7_EndsAtOrchestrator ==
    [][ /\ (pc # "__end__" /\ pc' = "__end__") => pc = "orquestrador"
        /\ (pc = "orquestrador" /\ ~HasSpecialistPhrase(Last(messages).content)) =>
              /\ pc' = "__end__"
              /\ (visited = <<>>) => visited' = <<"orquestrador">> ]_vars

\* C8: the first node is the orchestrator; every specialist visit comes
\* right after an orchestrator visit that appended that specialist's label
\* and is followed by the orchestrator; no two specialists run back to back.
C8_NodeOrdering ==
    /\ visited = <<>> => pc \in {"orquestrador", "error"}
    /\ visited # <<>> => visited[1] = "orquestrador"
    /\ \A i \in 1..Len(visited) :
          visited[i] \in Specialists =>
              /\ i > 1
              /\ visited[i - 1] = "orquestrador"
              /\ messages[Len(initial) + i - 1].content \in DOMAIN Ends
              /\ Ends[messages[Len(initial) + i - 1].content] = visited[i]
              /\ i < Len(visited) => visited[i + 1] = "orquestrador"
              /\ i = Len(visited) => pc \in {"orquestrador", "error"}

\* both specialists were visited in one run
C8_Witness ==
    /\ \E i \in 1..Len(visited) : visited[i] = "pesquisador"
    /\ \E i \in 1..Len(visited) : visited[i] = "analista_dados"
    /\ pc = "orquestrador"

\* C9: after each orchestrator visit the next_agent field names the node
\* the orchestrator just selected.
C9_NextAgentRecomputed ==
    (visited # <<>> /\ Last(visited) = "orquestrador") =>
        next_agent = Ends[Last(messages).content]

\* C10: ler_arquivo on a path that does not exist returns an error text
\* that contains the path, and leaves the file system as it was.
C10_LerMissingReturnsError ==
    (lastCall.call.tool = "ler_arquivo" /\ ~Exists(lastCall.before, lastCall.call.arg1)) =>
        /\ ~lastCall.result.raised
        /\ Contains(lastCall.result.value, lastCall.call.arg1)
        /\ fs = lastCall.before

\* the call made right before the latest one
Previous == earlierCall.adjacent

\* escrever_arquivo reported success
Saved(call, result) ==
    /\ call.tool = "escrever_arquivo"
    /\ ~result.raised
    /\ result.value = OkEscrever \o call.arg1

\* C11: a ler_arquivo that directly follows a successful escrever_arquivo on
\* the same path returns exactly the content written.
C11_WriteReadRoundTrip ==
    (/\ Previous
     /\ Saved(earlierCall.call, earlierCall.result)
     /\ lastCall.call.tool = "ler_arquivo"
     /\ lastCall.call.arg1 = earlierCall.call.arg1) =>
        lastCall.result = Return(earlierCall.call.arg2)

\* C12: on every file system ler_arquivo and escrever_arquivo return a text
\* and never raise.
C12_ToolsNeverRaise ==
    lastCall.call.tool \in {"ler_arquivo", "escrever_arquivo"} =>
        ~lastCall.result.raised

\* C13 as stated: a call returns what any earlier call with the same
\* arguments returned, whatever was invoked in between.
C13_ResultFromArgumentsAlone ==
    earlierCall.call = lastCall.call => earlierCall.result = lastCall.result

\* C13 amended: a call returns what an earlier call with the same arguments
\* returned whenever the file system held the same at the call's path both
\* times; for ferramenta_analise_dados, always.
C13_ResultFromArgumentsAndPath ==
    (/\ earlierCall.call = lastCall.call
     /\ earlierCall.view = Relevant(lastCall.before, lastCall.call)) =>
        earlierCall.result = lastCall.result

\* a file was read twice with other calls in between, and the analysis stub
\* is among the tools at hand
C13_Witness ==
    /\ earlierCall.call = lastCall.call
    /\ ~Previous
    /\ lastCall.call.tool = "ler_arquivo"
    /\ lastCall.before[lastCall.call.arg1].kind = "file"
    /\ earlierCall.view = Relevant(lastCall.before, lastCall.call)
    /\ earlierCall.result = lastCall.result
    /\ pc = "analista_dados"

\* C16: ler_arquivo and ferramenta_analise_dados leave the file system as it
\* was; an escrever_arquivo repeated right away with the same arguments
\* returns the same text and leaves the file system as the first call did.
C16_IdempotentOrInert ==
    /\ lastCall.call.tool \in {"ler_arquivo", "ferramenta_analise_dados"} =>
            fs = lastCall.before
    /\ (/\ Previous
        /\ lastCall.call.tool = "escrever_arquivo"
        /\ earlierCall.call = lastCall.call) =>
            /\ lastCall.result = earlierCall.result
            /\ fs = lastCall.before

\* a file created by escrever_arquivo was written again with the same content
C16_Witness ==
    /\ Previous
    /\ earlierCall.call = lastCall.call
    /\ Saved(lastCall.call, lastCall.result)
    /\ earlierCall.view[1] = Missing
    /\ fs[lastCall.call.arg1] = File(lastCall.call.arg2)

\* how many of the three phrases the inspected text holds
PhrasesMatched ==
    Cardinality({ph \in {PhraseAnalise, PhrasePesquisa, PhraseCriacao} :
                    Contains(Inspected, ph)})

\* C14: when the inspected last message holds more than one of the phrases
\* the code matches, routing returns the label of the earliest of them in the
\* order "analise de dados", "pesquisa", "criação de conteúdo".
C14_FirstMatchWins ==
    (Decided /\ PhrasesMatched >= 2) =>
        decision.label = IF Contains(Inspected, PhraseAnalise)
                         THEN LabelAnalista ELSE LabelPesquisador

\* a message with both the data-analysis phrase and "pesquisa" went to the
\* analyst
C14_Witness ==
    /\ Decided
    /\ Contains(Inspected, PhraseAnalise)
    /\ Contains(Inspected, PhrasePesquisa)
    /\ decision.label = LabelAnalista
    /\ pc = "analista_dados"

\* other conversations that end in the same text: different earlier
\* messages, authors and next_agent values
Contexts == {<<>>, <<HumanMessage(FragPESQUISA), AIMessage(OutAnalise)>>}

Variants(text) ==
    {[messages |-> pre \o <<[type |-> t, content |-> text]>>, next_agent |-> n] :
        pre \in Contexts, t \in {"human", "ai"}, n \in {Unset, "analista_dados"}}

\* C15: the label routing returned is the label it returns for every
\* conversation whose last message has the same text, whatever the earlier
\* messages, the authors and next_agent are.
C15_OnlyLastMessage ==
    Decided => \A v \in Variants(decision.text) :
                    decide_next_agent(v) = decision.label

\* a run that began with a "pesquisa" request and a set next_agent was ended
\* on a specialist's answer without any phrase
C15_Witness ==
    /\ Decided
    /\ decision.text = OutFeito
    /\ decision.label = END
    /\ Contains(Lower(Last(initial).content), PhrasePesquisa)
    /\ next_agent = "pesquisador"
    /\ Len(initial) = 3

\* visits by a specialist so far
SpecialistVisits == Cardinality({i \in 1..Len(visited) : visited[i] \in Specialists})

\* C17: with a language model whose every answer holds a phrase the
\* orchestrator dispatches on, no run reaches the end, however many visits
\* were made: the orchestrator dispatches again each time.
C17_NoIterationLimit ==
    /\ pc # "__end__"
    /\ pc = "orquestrador" =>
          decide_next_agent(AgentState) \in {LabelPesquisador, LabelAnalista}

\* after two specialist visits a third one has been dispatched
C17_Witness ==
    /\ SpecialistVisits >= 2
    /\ Last(visited) = "orquestrador"
    /\ pc \in Specialists

\* C18: the message an orchestrator visit inspects is the last initial
\* message (first visit) or one appended by a specialist, never the label the
\* orchestrator appended itself.
C18_NeverOwnOutput ==
    /\ pc = "orquestrador" =>
          \/ visited = <<>> /\ messages = initial
          \/ /\ visited # <<>>
             /\ Last(visited) \in Specialists
             /\ Len(messages) = Len(initial) + Len(visited)
    /\ \A i \in 1..Len(visited) :
          (visited[i] = "orquestrador" /\ i > 1) => visited[i - 1] \in Specialists

\* the orchestrator is about to inspect a researcher's answer that follows
\* its own "pesquisador" label
C18_Witness ==
    /\ pc = "orquestrador"
    /\ visited # <<>>
    /\ Last(visited) = "pesquisador"
    /\ messages[Len(messages) - 1] = AIMessage(LabelPesquisador)
    /\ Last(messages).content = OutFeito

\* C19: right after an orchestrator visit the last message is an agent
\* message holding exactly the label routing returns for the previous last
\* message, and the next node is the one the label maps to; a run that has
\* ended has the termination label as its final message.
C19_DispatchOnAppendedLabel ==
    /\ [][(pc = "orquestrador" /\ visited' # visited) =>
            /\ Last(messages') = AIMessage(decide_next_agent(AgentState))
            /\ Len(messages') = Len(messages) + 1
            /\ Last(messages').content \in DOMAIN Ends
            /\ pc' = Ends[Last(messages').content]]_vars
    /\ [](pc = "__end__" => Last(messages) = AIMessage(END))

\* the analyst was dispatched a second time on its own label message
C19_Witness ==
    /\ pc = "analista_dados"
    /\ Last(messages) = AIMessage(LabelAnalista)
    /\ Len(visited) = 3
    /\ visited[2] = "analista_dados"
====
